---------------------------- MODULE Spec2Model ----------------------------
(***************************************************************************)
(* A model of src/src/duck_db.py: the loader load_csv_to_duckdb, the five  *)
(* analyses (analyze_trips_by_hour, analyze_popular_routes,                *)
(* analyze_payment_methods, analyze_busy_days_and_times,                   *)
(* test_large_memory_processing), and the two batch runners main and       *)
(* run_analytics.                                                          *)
(*                                                                         *)
(* The SQL the program sends to the engine is modelled by what the SQL     *)
(* means: GROUP BY, COUNT, AVG (which skips NULL), NULLIF, WHERE, ORDER BY *)
(* (whose order among equal sort keys is not fixed by the query), LIMIT,   *)
(* RANK, a ROWS BETWEEN frame, NTILE.  Numbers are exact: an average is a  *)
(* rational number in lowest terms, not a double.                          *)
(*                                                                         *)
(* A con.execute call may raise (the engine runs out of memory, the disk   *)
(* is full, the catalog has no such table); where the cause is not in the  *)
(* model's state the exception is an input chosen with \E.                 *)
(***************************************************************************)
EXTENDS Integers, Sequences, FiniteSets, TLC

VARIABLES
    runner,            \* which batch runner is on the stack: "main" or "run_analytics"
    pc,                \* the runner's position
    csv,               \* the CSV file: [exists, rows]
    db,                \* the persisted database: [yellow_taxi: [exists, rows], taxi_routes: BOOLEAN]
    dropped,           \* the table the last load's DROP TABLE IF EXISTS removed: [exists, rows]
    conOpen,           \* the connection con is open
    loaded,            \* what load_csv_to_duckdb returned: [called, success, row_count]
    limit,             \* analyze_popular_routes's parameter limit
    ntile,             \* the bucket count of NTILE(...)
    radius,            \* the r of ROWS BETWEEN r PRECEDING AND r FOLLOWING
    rankMax,           \* the bound of WHERE day_fare_rank <= ...
    hourly_stats,      \* each analysis's local of the runner: [st, val]
    popular_routes,
    payment_stats,
    day_stats,
    hourly_day_stats,
    large_memory_test,
    trip_ranks,        \* the rows of the CTE trip_ranks of the last window query
    called,            \* the analyses called so far in this batch
    failed,            \* the analyses whose queries raised in this batch
    report,            \* the JSON file written: [written, val]
    outcome,           \* how the runner ended: "running", "returned", "raised"
    ceiling,           \* the engine's memory ceiling, in accumulators
    scanned,           \* the rows the aggregation has scanned
    accumulators,      \* the resident accumulators: group key -> [count, sum]
    segments,          \* the sealed spill segments, each a map like accumulators
    merged             \* the finalized rows of the aggregation

vars == <<runner, pc, csv, db, dropped, conOpen, loaded, limit, ntile, radius, rankMax,
          hourly_stats, popular_routes, payment_stats, day_stats,
          hourly_day_stats, large_memory_test, trip_ranks, called, failed,
          report, outcome, ceiling, scanned, accumulators, segments, merged>>

engine == <<ceiling, scanned, accumulators, segments, merged>>

---------------------------------------------------------------------------
(* Bounds of the model. *)

MaxRows == 3

MaxCsvRows == 2

MaxWinRows == 3

MaxLimit == 1

MaxTiles == 3

MaxRadius == 1

MaxRank == 2

MaxCeiling == 3

(* Constants of the program. *)

DEFAULT_LIMIT == 10

NTILE_BUCKETS == 100

FRAME_RADIUS == 10000

RANK_FILTER == 1000

MIN_TRIP_SECONDS == 60

SECONDS_PER_HOUR == 3600

---------------------------------------------------------------------------
(* Exact numbers.  A nullable number is [n, d]: the rational n/d in lowest *)
(* terms with d > 0, or SQL NULL (Python None) when d = 0.                 *)

Abs(x) == IF x < 0 THEN -x ELSE x

RECURSIVE GCD(_, _)
GCD(a, b) == IF b = 0 THEN a ELSE GCD(b, a % b)

Null == [n |-> 0, d |-> 0]

IsNull(q) == q.d = 0

Rat(n, d) ==
    LET g == GCD(Abs(n), Abs(d))
        s == IF d < 0 THEN -1 ELSE 1
    IN  [n |-> (s * n) \div g, d |-> (s * d) \div g]

Num(x) == [n |-> x, d |-> 1]

RatAdd(p, q) == Rat(p.n * q.d + q.n * p.d, p.d * q.d)

(* SQL's x / y: NULL when an operand is NULL.  A zero divisor gives NULL  *)
(* too; no query of the program reaches it (NULLIF or WHERE comes first). *)
SqlDiv(p, q) ==
    IF IsNull(p) \/ IsNull(q) \/ q.n = 0 THEN Null
    ELSE Rat(p.n * q.d, p.d * q.n)

SqlMul(p, q) == IF IsNull(p) \/ IsNull(q) THEN Null ELSE Rat(p.n * q.n, p.d * q.d)

(* NULLIF(x, v): NULL when x = v, else x. *)
NullIf(x, v) == IF x = v THEN Null ELSE Num(x)

RECURSIVE SumSeq(_)
SumSeq(s) == IF s = <<>> THEN Num(0) ELSE RatAdd(Head(s), SumSeq(Tail(s)))

NonNull(s) == SelectSeq(s, LAMBDA q : ~IsNull(q))

(* AVG over a column: NULL values are skipped, in the sum and in the      *)
(* divisor; NULL when no value is left.                                   *)
Avg(s) ==
    LET v == NonNull(s)
    IN  IF v = <<>> THEN Null ELSE SqlDiv(SumSeq(v), Num(Len(v)))

(* SUM over a column of numbers. *)
Sum(s) == LET v == NonNull(s) IN IF v = <<>> THEN Null ELSE SumSeq(v)

Map(s, F(_)) == [i \in 1..Len(s) |-> F(s[i])]

Range(s) == {s[i] : i \in 1..Len(s)}

(* The elements of a sequence, each once, in the order first seen. *)
RECURSIVE FirstSeen(_)
FirstSeen(s) ==
    IF s = <<>> THEN <<>>
    ELSE LET init == FirstSeen(SubSeq(s, 1, Len(s) - 1))
             last == s[Len(s)]
         IN  IF last \in Range(init) THEN init ELSE Append(init, last)

(* Every arrangement of the set S in ascending order of key[x]: the orders *)
(* an ORDER BY may return.  Elements with equal keys come in any order:    *)
(* the query does not fix it.                                               *)
RECURSIVE Orders(_, _)
Orders(S, key) ==
    IF S = {} THEN {<<>>}
    ELSE UNION {{<<m>> \o rest : rest \in Orders(S \ {m}, key)} :
                m \in {x \in S : \A y \in S : key[x] <= key[y]}}

(* Tables of at most n rows drawn from Rows. *)
TablesOf(Rows, n) == UNION {[1..k -> Rows] : k \in 0..n}

---------------------------------------------------------------------------
(* The table yellow_taxi.  A row holds the columns the queries read.       *)
(* Timestamps are seconds since 2016-03-01 00:00:00 (FILE_NAME's month);   *)
(* coordinates are thousandths of a degree; the columns hold no NULL.      *)

Row(pickup, seconds, dist, fare, tip, pay, plon, dlat) ==
    [tpep_pickup_datetime |-> pickup,
     tpep_dropoff_datetime |-> pickup + seconds,
     trip_distance |-> dist,
     fare_amount |-> fare,
     tip_amount |-> tip,
     total_amount |-> fare + tip,
     payment_type |-> pay,
     pickup_longitude |-> plon,
     pickup_latitude |-> 40758,
     dropoff_longitude |-> -73985,
     dropoff_latitude |-> dlat]

Min(a, b) == IF a < b THEN a ELSE b

Max(a, b) == IF a < b THEN b ELSE a

(* EXTRACT(HOUR FROM ts), EXTRACT(DAY FROM ts), EXTRACT(EPOCH FROM b - a). *)
ExtractHour(ts) == (ts \div 3600) % 24

ExtractDay(ts) == (ts \div 86400) + 1

ExtractEpoch(a, b) == b - a

DayNames == <<"Monday", "Tuesday", "Wednesday", "Thursday", "Friday", "Saturday", "Sunday">>

(* DAYNAME(ts): 2016-03-01 was a Tuesday. *)
DayName(ts) == DayNames[(((ts \div 86400) + 1) % 7) + 1]

(* The CASE day_name WHEN 'Monday' THEN 1 ... of the ORDER BY clauses. *)
DayOrder(name) == CHOOSE i \in 1..7 : DayNames[i] = name

RECURSIVE Pow10(_)
Pow10(k) == IF k = 0 THEN 1 ELSE 10 * Pow10(k - 1)

(* ROUND(x, places) of a coordinate in thousandths: to the nearest        *)
(* multiple of 10^(3 - places), halves away from zero.                    *)
Round(x, places) ==
    LET unit == Pow10(3 - places)
        q == (Abs(x) + (unit \div 2)) \div unit
    IN  IF x < 0 THEN -(q * unit) ELSE q * unit

(* TipRatio with a zero fare counted as a tip share of 0 instead of NULL. *)
TipRatio_ZeroFareAsZero(r) ==
    IF r.fare_amount = 0 THEN Num(0) ELSE SqlDiv(Num(r.tip_amount), Num(r.fare_amount))

(* tip_amount / NULLIF(fare_amount, 0) *)
TipRatio(r) == SqlDiv(Num(r.tip_amount), NullIf(r.fare_amount, 0))

(* AVG(tip_amount / NULLIF(fare_amount, 0)) * 100 *)
AvgTipPercentage(rows) == SqlMul(Avg(Map(rows, TipRatio)), Num(100))

AvgCol(rows, Col(_)) == Avg(Map(rows, LAMBDA r : Num(Col(r))))

(* The only order of a set of distinct integer keys. *)
Ascending(S) == CHOOSE s \in Orders(S, [x \in S |-> x]) : TRUE

(* float(x) if x is not None else 0 *)
NoneToZero(q) == IF IsNull(q) THEN Num(0) ELSE q

---------------------------------------------------------------------------
(* analyze_trips_by_hour *)

(* HourOfDay on a 12-hour clock: 13:00 falls in the group of 01:00. *)
HourOfDay_TwelveHourClock(r) == ExtractHour(r.tpep_pickup_datetime) % 12

(* EXTRACT(HOUR FROM tpep_pickup_datetime) AS hour_of_day *)
HourOfDay(r) == ExtractHour(r.tpep_pickup_datetime)

(* SELECT ... GROUP BY hour_of_day ORDER BY hour_of_day *)
HourlyQuery(t) ==
    LET grp(h) == SelectSeq(t, LAMBDA r : HourOfDay(r) = h)
        out(h) == [hour_of_day |-> h,
                   trip_count |-> Len(grp(h)),
                   avg_distance |-> AvgCol(grp(h), LAMBDA r : r.trip_distance),
                   avg_fare |-> AvgCol(grp(h), LAMBDA r : r.fare_amount),
                   avg_tip |-> AvgCol(grp(h), LAMBDA r : r.tip_amount),
                   avg_tip_percentage |-> AvgTipPercentage(grp(h))]
    IN  Map(Ascending({HourOfDay(t[i]) : i \in 1..Len(t)}), out)

(* The dict hour_data built from the result, in insertion order. *)
HourData(result) ==
    Map(result, LAMBDA row :
        [hour |-> row.hour_of_day,
         trip_count |-> row.trip_count,
         avg_distance |-> row.avg_distance,
         avg_fare |-> row.avg_fare,
         avg_tip |-> row.avg_tip,
         tip_percentage |-> NoneToZero(row.avg_tip_percentage)])

---------------------------------------------------------------------------
(* analyze_popular_routes *)

(* WHERE pickup_longitude != 0 AND pickup_latitude != 0 AND ... *)
HasCoordinates(r) ==
    /\ r.pickup_longitude # 0 /\ r.pickup_latitude # 0
    /\ r.dropoff_longitude # 0 /\ r.dropoff_latitude # 0

RouteKey(r, places) ==
    <<Round(r.pickup_longitude, places), Round(r.pickup_latitude, places),
      Round(r.dropoff_longitude, places), Round(r.dropoff_latitude, places)>>

(* The groups of GROUP BY pickup_long, pickup_lat, dropoff_long,          *)
(* dropoff_lat over the filtered rows, in first-seen order of the key.    *)
RouteGroups(t, places) ==
    LET rows == SelectSeq(t, HasCoordinates)
        grp(k) == SelectSeq(rows, LAMBDA r : RouteKey(r, places) = k)
        out(k) == [pickup_long |-> k[1], pickup_lat |-> k[2],
                   dropoff_long |-> k[3], dropoff_lat |-> k[4],
                   trip_count |-> Len(grp(k)),
                   avg_distance |-> AvgCol(grp(k), LAMBDA r : r.trip_distance),
                   avg_fare |-> AvgCol(grp(k), LAMBDA r : r.fare_amount),
                   avg_total |-> AvgCol(grp(k), LAMBDA r : r.total_amount)]
    IN  Map(FirstSeen(Map(rows, LAMBDA r : RouteKey(r, places))), out)

(* ORDER BY trip_count DESC: every order of the groups by descending      *)
(* count; the query names no second sort key.                             *)
ByTripCountDesc(groups) ==
    LET S == Range(groups) IN Orders(S, [g \in S |-> -g.trip_count])

(* LIMIT n *)
Limit(s, n) == SubSeq(s, 1, Min(n, Len(s)))

(* The results the route query may return: the view's query (2 decimal    *)
(* places) or the fallback's (1 decimal place).                           *)
RoutesQuery(t, places, n) ==
    {Limit(o, n) : o \in ByTripCountDesc(RouteGroups(t, places))}

(* The list routes_data built from the result. *)
RoutesData(result) ==
    Map(result, LAMBDA row :
        [pickup |-> [longitude |-> row.pickup_long, latitude |-> row.pickup_lat],
         dropoff |-> [longitude |-> row.dropoff_long, latitude |-> row.dropoff_lat],
         trip_count |-> row.trip_count,
         avg_distance |-> row.avg_distance,
         avg_fare |-> row.avg_fare,
         avg_total |-> row.avg_total])

---------------------------------------------------------------------------
(* analyze_payment_methods *)

PaymentDescs == <<"Credit card", "Cash", "No charge", "Dispute", "Unknown", "Voided">>

(* CASE payment_type WHEN 1 THEN 'Credit card' ... ELSE 'Other' END *)
PaymentDesc(p) == IF p \in 1..6 THEN PaymentDescs[p] ELSE "Other"

PaymentGroups(t) ==
    LET grp(p) == SelectSeq(t, LAMBDA r : r.payment_type = p)
        out(p) == [payment_type |-> p,
                   payment_desc |-> PaymentDesc(p),
                   trip_count |-> Len(grp(p)),
                   avg_fare |-> AvgCol(grp(p), LAMBDA r : r.fare_amount),
                   avg_tip |-> AvgCol(grp(p), LAMBDA r : r.tip_amount),
                   total_tips |-> Sum(Map(grp(p), LAMBDA r : Num(r.tip_amount))),
                   avg_tip_percentage |-> AvgTipPercentage(grp(p))]
    IN  Map(FirstSeen(Map(t, LAMBDA r : r.payment_type)), out)

(* SELECT ... GROUP BY payment_type, payment_desc ORDER BY trip_count DESC *)
PaymentQuery(t) == ByTripCountDesc(PaymentGroups(t))

(* The dict payment_data built from the result, in insertion order. *)
PaymentData(result) ==
    Map(result, LAMBDA row :
        [payment_id |-> row.payment_type,
         description |-> row.payment_desc,
         trip_count |-> row.trip_count,
         avg_fare |-> row.avg_fare,
         avg_tip |-> row.avg_tip,
         total_tips |-> row.total_tips,
         tip_percentage |-> NoneToZero(row.avg_tip_percentage)])

---------------------------------------------------------------------------
(* analyze_busy_days_and_times *)

TripSeconds(r) == ExtractEpoch(r.tpep_pickup_datetime, r.tpep_dropoff_datetime)

(* IsTimedTrip without the test of trip_distance. *)
IsTimedTrip_AnyDistance(r) ==
    /\ r.tpep_dropoff_datetime > r.tpep_pickup_datetime
    /\ TripSeconds(r) > MIN_TRIP_SECONDS

(* WHERE tpep_dropoff_datetime > tpep_pickup_datetime AND trip_distance > 0 *)
(*   AND EXTRACT(EPOCH FROM (dropoff - pickup)) > 60                        *)
IsTimedTrip(r) ==
    /\ r.tpep_dropoff_datetime > r.tpep_pickup_datetime
    /\ r.trip_distance > 0
    /\ TripSeconds(r) > MIN_TRIP_SECONDS

(* trip_distance / (EXTRACT(EPOCH FROM (dropoff - pickup)) / 3600) *)
SpeedMph(r) ==
    SqlDiv(Num(r.trip_distance), SqlDiv(Num(TripSeconds(r)), Num(SECONDS_PER_HOUR)))

PickupDayName(r) == DayName(r.tpep_pickup_datetime)

(* SELECT ... WHERE ... GROUP BY day_name ORDER BY CASE day_name ... *)
DayQuery(t) ==
    LET rows == SelectSeq(t, IsTimedTrip)
        grp(i) == SelectSeq(rows, LAMBDA r : PickupDayName(r) = DayNames[i])
        out(i) == [day_name |-> DayNames[i],
                   trip_count |-> Len(grp(i)),
                   avg_distance |-> AvgCol(grp(i), LAMBDA r : r.trip_distance),
                   avg_fare |-> AvgCol(grp(i), LAMBDA r : r.fare_amount),
                   avg_tip |-> AvgCol(grp(i), LAMBDA r : r.tip_amount),
                   avg_speed_mph |-> Avg(Map(grp(i), SpeedMph))]
    IN  Map(Ascending({DayOrder(PickupDayName(rows[i])) : i \in 1..Len(rows)}), out)

(* SELECT day_name, hour_of_day, the count ... GROUP BY day_name,         *)
(* hour_of_day ORDER BY CASE day_name ..., hour_of_day                    *)
HourByDayQuery(t) ==
    LET code(r) == (DayOrder(PickupDayName(r)) * 24) + HourOfDay(r)
        out(c) == [day_name |-> DayNames[c \div 24],
                   hour_of_day |-> c % 24,
                   trip_count |-> Len(SelectSeq(t, LAMBDA r : code(r) = c))]
    IN  Map(Ascending({code(t[i]) : i \in 1..Len(t)}), out)

(* The dict day_data built from day_result. *)
DayData(result) ==
    Map(result, LAMBDA row :
        [day |-> row.day_name,
         trip_count |-> row.trip_count,
         avg_distance |-> row.avg_distance,
         avg_fare |-> row.avg_fare,
         avg_tip |-> row.avg_tip,
         avg_speed_mph |-> NoneToZero(row.avg_speed_mph)])

(* The dict of dicts hour_by_day_data: day -> hour -> count. *)
HourByDayData(result) ==
    LET hours(d) == Map(SelectSeq(result, LAMBDA row : row.day_name = d),
                        LAMBDA row : [hour |-> row.hour_of_day, trip_count |-> row.trip_count])
    IN  Map(FirstSeen(Map(result, LAMBDA row : row.day_name)),
            LAMBDA d : [day |-> d, hours |-> hours(d)])

---------------------------------------------------------------------------
(* test_large_memory_processing: the window query. *)

PickupDay(r) == ExtractDay(r.tpep_pickup_datetime)

(* DENSE_RANK in RANK's place: one more than the number of distinct       *)
(* higher fares of the partition.                                         *)
Rank_Dense(t, i) ==
    1 + Cardinality({t[j].fare_amount : j \in {j \in 1..Len(t) :
                        /\ PickupDay(t[j]) = PickupDay(t[i])
                        /\ t[j].fare_amount > t[i].fare_amount}})

(* RANK() OVER (PARTITION BY EXTRACT(DAY FROM tpep_pickup_datetime)       *)
(* ORDER BY fare_amount DESC): one more than the number of rows of the    *)
(* partition that sort strictly before the row; peers share a rank.       *)
Rank(t, i) ==
    1 + Cardinality({j \in 1..Len(t) :
                        /\ PickupDay(t[j]) = PickupDay(t[i])
                        /\ t[j].fare_amount > t[i].fare_amount})

(* The position of row i in an ordering of the row numbers. *)
PosIn(ord, i) == CHOOSE p \in 1..Len(ord) : ord[p] = i

(* The moving average with the rows missing at the ends counted as fares  *)
(* of 0: the sum of the frame over 2r + 1.                                *)
MovingAvg_ZeroPadded(t, ord, p, r) ==
    LET lo == Max(1, p - r)
        hi == Min(Len(ord), p + r)
    IN  SqlDiv(SumSeq([k \in 1..(hi - lo + 1) |-> Num(t[ord[lo + k - 1]].fare_amount)]),
               Num((2 * r) + 1))

(* AVG(fare_amount) OVER (ORDER BY tpep_pickup_datetime ROWS BETWEEN r    *)
(* PRECEDING AND r FOLLOWING) for the row at position p of the ordering:  *)
(* the frame is the rows at positions p - r .. p + r that exist.          *)
MovingAvg(t, ord, p, r) ==
    LET lo == Max(1, p - r)
        hi == Min(Len(ord), p + r)
    IN  Avg([k \in 1..(hi - lo + 1) |-> Num(t[ord[lo + k - 1]].fare_amount)])

(* NTILE with every bucket of the size n \div buckets, the remainder      *)
(* running on into further buckets.                                       *)
Ntile_FloorSize(p, n, buckets) ==
    1 + ((p - 1) \div Max(1, n \div buckets))

(* NTILE(buckets) for the row at position p (from 1) of n ordered rows:   *)
(* the first n % buckets buckets hold one row more than the others; with  *)
(* more buckets than rows, every row is a bucket of its own.              *)
Ntile(p, n, buckets) ==
    LET n_param == Min(buckets, n)
        n_size == n \div n_param
        n_large == n - (n_param * n_size)
        i_small == n_large * (n_size + 1)
        row_idx == p - 1
    IN  IF row_idx < i_small
        THEN 1 + (row_idx \div (n_size + 1))
        ELSE 1 + n_large + ((row_idx - i_small) \div n_size)

(* The orders ORDER BY tpep_pickup_datetime and ORDER BY trip_distance    *)
(* may give the rows (as row numbers of the scan). *)
PickupOrders(t) == Orders(1..Len(t), [i \in 1..Len(t) |-> t[i].tpep_pickup_datetime])

DistanceOrders(t) == Orders(1..Len(t), [i \in 1..Len(t) |-> t[i].trip_distance])

(* The rows of the CTE trip_ranks, by row number of the scan, for one     *)
(* choice of the two orderings.  pickup_pos and distance_pos record the   *)
(* row's place in them.                                                   *)
TripRanks(t, byPickup, byDistance, buckets, r) ==
    [i \in 1..Len(t) |->
        [trip_distance |-> t[i].trip_distance,
         fare_amount |-> t[i].fare_amount,
         tip_amount |-> t[i].tip_amount,
         tpep_pickup_datetime |-> t[i].tpep_pickup_datetime,
         pickup_pos |-> PosIn(byPickup, i),
         distance_pos |-> PosIn(byDistance, i),
         day_fare_rank |-> Rank(t, i),
         moving_avg_fare |-> MovingAvg(t, byPickup, PosIn(byPickup, i), r),
         distance_percentile |-> Ntile(PosIn(byDistance, i), Len(t), buckets)]]

TripRanksOutcomes(t, buckets, r) ==
    {TripRanks(t, bp, bd, buckets, r) : bp \in PickupOrders(t), bd \in DistanceOrders(t)}

(* ROUND(q, 2): to the nearest hundredth, halves away from zero. *)
Round2(q) ==
    IF IsNull(q) THEN Null
    ELSE LET h == ((Abs(q.n) * 200) + q.d) \div (2 * q.d)
         IN  Rat(IF q.n < 0 THEN -h ELSE h, 100)

(* SELECT distance_percentile, ROUND(AVG(..), 2) ..., the count FROM      *)
(* trip_ranks WHERE day_fare_rank <= bound GROUP BY distance_percentile   *)
(* ORDER BY distance_percentile                                           *)
PercentileQuery(tr, bound) ==
    LET rows == SelectSeq(tr, LAMBDA x : x.day_fare_rank <= bound)
        grp(p) == SelectSeq(rows, LAMBDA x : x.distance_percentile = p)
        out(p) == [distance_percentile |-> p,
                   avg_distance |-> Round2(AvgCol(grp(p), LAMBDA x : x.trip_distance)),
                   avg_fare |-> Round2(AvgCol(grp(p), LAMBDA x : x.fare_amount)),
                   avg_tip |-> Round2(AvgCol(grp(p), LAMBDA x : x.tip_amount)),
                   trip_count |-> Len(grp(p))]
    IN  Map(Ascending({rows[i].distance_percentile : i \in 1..Len(rows)}), out)

---------------------------------------------------------------------------
(* The inputs the specifications draw from. *)

(* Two trips for the CSV file and the table an earlier run left behind. *)
MainRows ==
    {Row(0, 600, 2, 10, 1, 1, -73990, 40750),
     Row(13 * 3600, 0, 0, 0, 1, 2, 0, 40750)}

(* Trips for the grouped aggregations: two hours, three payment types,    *)
(* two days, a zero fare with a tip, a missing coordinate, routes that    *)
(* agree at 2 decimal places or only at 1, a trip of 0 seconds and a trip *)
(* of distance 0.                                                         *)
AggRows ==
    {Row(0, 600, 2, 10, 1, 1, -73990, 40750),
     Row(0, 600, 2, 20, 2, 1, -73994, 40750),
     Row(13 * 3600, 1200, 3, 30, 3, 2, -73950, 40750),
     Row(0, 600, 2, 0, 1, 1, -73990, 40750),
     Row(86400, 0, 2, 10, 1, 3, -73990, 40750),
     Row(86400 + (13 * 3600), 600, 0, 10, 1, 1, -73990, 0)}

(* Trips for the window query: two days, three pickup times, equal and    *)
(* distinct fares within a day, equal and distinct distances.             *)
WinRows ==
    {Row(0, 600, 1, 10, 1, 1, -73990, 40750),
     Row(0, 600, 2, 20, 1, 1, -73990, 40750),
     Row(3600, 600, 1, 20, 1, 1, -73990, 40750),
     Row(3600, 600, 3, 10, 1, 1, -73990, 40750),
     Row(86400, 600, 2, 10, 1, 1, -73990, 40750),
     Row(86400, 600, 3, 20, 1, 1, -73990, 40750)}

NoTable == [exists |-> FALSE, rows |-> <<>>]

Table(t) == [exists |-> TRUE, rows |-> t]

Unset == [st |-> "unset", val |-> <<>>]

Set(v) == [st |-> "set", val |-> v]

NoTest == [st |-> "unset", val |-> [success |-> FALSE, result_count |-> 0]]

NoReport == [written |-> FALSE, val |-> <<>>]

NotLoaded == [called |-> FALSE, success |-> FALSE, row_count |-> 0]

yellow_taxi == db.yellow_taxi

params == <<limit, ntile, radius, rankMax>>

results == <<hourly_stats, popular_routes, payment_stats, day_stats,
             hourly_day_stats, large_memory_test>>

---------------------------------------------------------------------------
(* load_csv_to_duckdb(csv_file, con, memory_limit).  failAt is the        *)
(* statement that raises: DROP TABLE IF EXISTS, CREATE TABLE AS (which    *)
(* leaves no table behind), SELECT COUNT(1), or none.  The except clause  *)
(* returns (False, duration, 0).                                          *)

(* LoadedTable with CREATE TABLE AS adding the file's rows to the rows of  *)
(* the table of the earlier run.                                          *)
LoadedTable_KeepsOldRows(failAt) ==
    CASE failAt = "drop" -> yellow_taxi
      [] failAt = "create" -> NoTable
      [] OTHER -> Table(yellow_taxi.rows \o csv.rows)

LoadedTable(failAt) ==
    CASE failAt = "drop" -> yellow_taxi
      [] failAt = "create" -> NoTable
      [] OTHER -> Table(csv.rows)

(* Line 26: what DROP TABLE IF EXISTS yellow_taxi removed. *)
DroppedTable(failAt) == IF failAt = "drop" THEN NoTable ELSE yellow_taxi

LoadReturn(failAt) ==
    IF failAt = "none"
    THEN [called |-> TRUE, success |-> TRUE, row_count |-> Len(csv.rows)]
    ELSE [called |-> TRUE, success |-> FALSE, row_count |-> 0]

LoadCsvToDuckdb ==
    /\ pc = "load"
    /\ \E failAt \in {"none", "drop", "create", "count"} :
        /\ db' = [db EXCEPT !.yellow_taxi = LoadedTable(failAt)]
        /\ dropped' = DroppedTable(failAt)
        /\ loaded' = LoadReturn(failAt)
    /\ pc' = "stats"
    /\ UNCHANGED <<engine, runner, csv, conOpen, params, results, trip_ranks, called,
                   failed, report, outcome>>

---------------------------------------------------------------------------
(* The analyses.  Each is called by main (lines 560-578) and by           *)
(* run_analytics (lines 450-455).  An exception that leaves the function  *)
(* goes where the runner's try blocks send it:                            *)
(*   main, analyze_trips_by_hour: to "except Exception" of line 596, which *)
(*     skips the rest of the batch and the report;                         *)
(*   main, the other analyses: to the except clause around the call,      *)
(*     which puts [] or {} in the analysis's place;                       *)
(*   run_analytics: out of run_analytics, which has no try.               *)

Propagate ==
    IF runner = "main"
    THEN pc' = "close" /\ UNCHANGED outcome
    ELSE pc' = "done" /\ outcome' = "raised"

(* The value main's except clauses put in a failed analysis's place. *)
StandIn == Set(<<>>)

(* analyze_trips_by_hour(con) *)
AnalyzeTripsByHour ==
    /\ pc = "hourly"
    /\ called' = called \cup {"hourly"}
    /\ \E ok \in BOOLEAN :
        IF ok /\ yellow_taxi.exists
        THEN /\ hourly_stats' = Set(HourData(HourlyQuery(yellow_taxi.rows)))
             /\ pc' = "routes"
             /\ UNCHANGED <<failed, outcome>>
        ELSE /\ failed' = failed \cup {"hourly"}
             /\ Propagate
             /\ UNCHANGED hourly_stats
    /\ UNCHANGED <<engine, runner, csv, dropped, db, conOpen, loaded, params, popular_routes,
                   payment_stats, day_stats, hourly_day_stats,
                   large_memory_test, trip_ranks, report>>

(* analyze_popular_routes(con, limit).  path "view": the view is created  *)
(* and its query answers; "fallback": the try block raised and the        *)
(* 1-decimal query answers; "raise": the fallback raised too.  viewMade:  *)
(* CREATE OR REPLACE VIEW had succeeded before the try block raised.      *)
AnalyzePopularRoutes ==
    /\ pc = "routes"
    /\ called' = called \cup {"routes"}
    /\ \E path \in {"view", "fallback", "raise"}, viewMade \in BOOLEAN :
        /\ path = "view" => viewMade
        /\ ~yellow_taxi.exists => (path = "raise" /\ ~viewMade)
        /\ db' = [db EXCEPT !.taxi_routes = db.taxi_routes \/ viewMade]
        /\ IF path = "raise"
           THEN /\ failed' = failed \cup {"routes"}
                /\ IF runner = "main"
                   THEN /\ popular_routes' = StandIn
                        /\ pc' = "payment"
                        /\ UNCHANGED outcome
                   ELSE /\ Propagate
                        /\ UNCHANGED popular_routes
           ELSE /\ \E res \in RoutesQuery(yellow_taxi.rows,
                                          IF path = "view" THEN 2 ELSE 1, limit) :
                        popular_routes' = Set(RoutesData(res))
                /\ pc' = "payment"
                /\ UNCHANGED <<failed, outcome>>
    /\ UNCHANGED <<engine, runner, csv, dropped, conOpen, loaded, params, hourly_stats,
                   payment_stats, day_stats, hourly_day_stats,
                   large_memory_test, trip_ranks, report>>

(* analyze_payment_methods(con) *)
AnalyzePaymentMethods ==
    /\ pc = "payment"
    /\ called' = called \cup {"payment"}
    /\ \E ok \in BOOLEAN :
        IF ok /\ yellow_taxi.exists
        THEN /\ \E res \in PaymentQuery(yellow_taxi.rows) :
                    payment_stats' = Set(PaymentData(res))
             /\ pc' = "days"
             /\ UNCHANGED <<failed, outcome>>
        ELSE /\ failed' = failed \cup {"payment"}
             /\ IF runner = "main"
                THEN /\ payment_stats' = StandIn
                     /\ pc' = "days"
                     /\ UNCHANGED outcome
                ELSE /\ Propagate
                     /\ UNCHANGED payment_stats
    /\ UNCHANGED <<engine, runner, csv, dropped, db, conOpen, loaded, params, hourly_stats,
                   popular_routes, day_stats, hourly_day_stats,
                   large_memory_test, trip_ranks, report>>

(* analyze_busy_days_and_times(con): both queries, then both dicts. *)
AnalyzeBusyDaysAndTimes ==
    /\ pc = "days"
    /\ called' = called \cup {"days"}
    /\ \E ok \in BOOLEAN :
        IF ok /\ yellow_taxi.exists
        THEN /\ day_stats' = Set(DayData(DayQuery(yellow_taxi.rows)))
             /\ hourly_day_stats' = Set(HourByDayData(HourByDayQuery(yellow_taxi.rows)))
             /\ pc' = IF runner = "main" THEN "save" ELSE "large"
             /\ UNCHANGED <<failed, outcome>>
        ELSE /\ failed' = failed \cup {"days"}
             /\ IF runner = "main"
                THEN /\ day_stats' = StandIn
                     /\ hourly_day_stats' = StandIn
                     /\ pc' = "save"
                     /\ UNCHANGED outcome
                ELSE /\ Propagate
                     /\ UNCHANGED <<day_stats, hourly_day_stats>>
    /\ UNCHANGED <<engine, runner, csv, dropped, db, conOpen, loaded, params, hourly_stats,
                   popular_routes, payment_stats, large_memory_test,
                   trip_ranks, report>>

(* test_large_memory_processing(con): (True, duration, len(result)), or   *)
(* (False, duration, 0) from its except clause.  It keeps no row of       *)
(* trip_ranks.                                                            *)
TestLargeMemoryProcessing ==
    /\ pc = "large"
    /\ called' = called \cup {"large"}
    /\ \E ok \in BOOLEAN :
        IF ok /\ yellow_taxi.exists
        THEN /\ \E tr \in TripRanksOutcomes(yellow_taxi.rows, ntile, radius) :
                    large_memory_test' =
                        Set([success |-> TRUE,
                             result_count |-> Len(PercentileQuery(tr, rankMax))])
             /\ UNCHANGED failed
        ELSE /\ large_memory_test' = Set([success |-> FALSE, result_count |-> 0])
             /\ failed' = failed \cup {"large"}
    /\ pc' = "save"
    /\ UNCHANGED <<engine, runner, csv, dropped, db, conOpen, loaded, params, hourly_stats,
                   popular_routes, payment_stats, day_stats, hourly_day_stats,
                   trip_ranks, report, outcome>>

(* The dict analytics_results of main (lines 581-587) and of              *)
(* run_analytics (lines 458-469). *)
AnalyticsResults ==
    IF runner = "main"
    THEN [hourly_stats |-> hourly_stats.val,
          popular_routes |-> popular_routes.val,
          payment_stats |-> payment_stats.val,
          day_stats |-> day_stats.val,
          hourly_day_stats |-> hourly_day_stats.val]
    ELSE [hourly_stats |-> hourly_stats.val,
          popular_routes |-> popular_routes.val,
          payment_stats |-> payment_stats.val,
          day_stats |-> day_stats.val,
          hourly_day_stats |-> hourly_day_stats.val,
          large_memory_test |-> large_memory_test.val]

(* Assemble analytics_results and json.dump it.  open() may raise (main   *)
(* never creates reports/): in main the except clause of line 596 takes   *)
(* it, run_analytics lets it out.                                         *)
SaveReport ==
    /\ pc = "save"
    /\ \E ok \in BOOLEAN :
        IF ok
        THEN /\ report' = [written |-> TRUE, val |-> AnalyticsResults]
             /\ IF runner = "main"
                THEN pc' = "close" /\ UNCHANGED outcome
                ELSE pc' = "done" /\ outcome' = "returned"
        ELSE /\ Propagate
             /\ UNCHANGED report
    /\ UNCHANGED <<engine, runner, csv, dropped, db, conOpen, loaded, params, results,
                   trip_ranks, called, failed>>

---------------------------------------------------------------------------
(* main(csv_file) *)

(* Lines 490-518: a missing file (or no file name) returns before the     *)
(* connection is opened.                                                  *)
Main ==
    /\ pc = "main"
    /\ IF csv.exists
       THEN pc' = "connect" /\ UNCHANGED outcome
       ELSE pc' = "done" /\ outcome' = "returned"
    /\ UNCHANGED <<engine, runner, csv, dropped, db, conOpen, loaded, params, results,
                   trip_ranks, called, failed, report>>

(* Line 520: con = duckdb.connect(database=db_name), outside any try. *)
Connect ==
    /\ pc = "connect"
    /\ \E ok \in BOOLEAN :
        IF ok
        THEN conOpen' = TRUE /\ pc' = "configure" /\ UNCHANGED outcome
        ELSE pc' = "done" /\ outcome' = "raised" /\ UNCHANGED conOpen
    /\ UNCHANGED <<engine, runner, csv, dropped, db, loaded, params, results, trip_ranks,
                   called, failed, report>>

(* Lines 522-525: SET temp_directory and SET memory_limit, before the try *)
(* block of line 527: an exception leaves main.                           *)
Configure ==
    /\ pc = "configure"
    /\ \E ok \in BOOLEAN :
        IF ok
        THEN pc' = "load" /\ UNCHANGED outcome
        ELSE pc' = "done" /\ outcome' = "raised"
    /\ UNCHANGED <<engine, runner, csv, dropped, db, conOpen, loaded, params, results,
                   trip_ranks, called, failed, report>>

(* Lines 530-555: whatever load_csv_to_duckdb returned, main counts the   *)
(* rows of yellow_taxi, describes it, samples it and reads the settings.  *)
(* Without the table the count raises; the except clause of line 599      *)
(* takes any exception.                                                   *)
Stats ==
    /\ pc = "stats"
    /\ \E ok \in BOOLEAN :
        pc' = IF ok /\ yellow_taxi.exists THEN "prompt" ELSE "close"
    /\ UNCHANGED <<engine, runner, csv, dropped, db, conOpen, loaded, params, results,
                   trip_ranks, called, failed, report, outcome>>

(* Line 557: the user answers the prompt. *)
Prompt ==
    /\ pc = "prompt"
    /\ \E answer \in {"y", "n"} :
        pc' = IF answer = "y" THEN "hourly" ELSE "close"
    /\ UNCHANGED <<engine, runner, csv, dropped, db, conOpen, loaded, params, results,
                   trip_ranks, called, failed, report, outcome>>

(* Lines 601-602: finally: con.close() *)
Close ==
    /\ pc = "close"
    /\ conOpen' = FALSE
    /\ pc' = "done"
    /\ outcome' = "returned"
    /\ UNCHANGED <<engine, runner, csv, dropped, db, loaded, params, results, trip_ranks,
                   called, failed, report>>

---------------------------------------------------------------------------
(* The window query of test_large_memory_processing, applied to a table:  *)
(* trip_ranks keeps the rows of the CTE.                                  *)
WindowQuery ==
    /\ pc = "window"
    /\ \E tr \in TripRanksOutcomes(yellow_taxi.rows, ntile, radius) :
        trip_ranks' = tr
    /\ pc' = "done"
    /\ outcome' = "returned"
    /\ UNCHANGED <<engine, runner, csv, dropped, db, conOpen, loaded, params, results,
                   called, failed, report>>

---------------------------------------------------------------------------
(* The specifications. *)

NoFile == [exists |-> FALSE, rows |-> <<>>]

Fresh ==
    /\ loaded = NotLoaded
    /\ dropped = NoTable
    /\ hourly_stats = Unset
    /\ popular_routes = Unset
    /\ payment_stats = Unset
    /\ day_stats = Unset
    /\ hourly_day_stats = Unset
    /\ large_memory_test = NoTest
    /\ trip_ranks = <<>>
    /\ called = {}
    /\ failed = {}
    /\ report = NoReport
    /\ outcome = "running"
    /\ scanned = 0
    /\ accumulators = <<>>
    /\ segments = <<>>
    /\ merged = {}

ProgramParams ==
    /\ limit = DEFAULT_LIMIT
    /\ ntile = NTILE_BUCKETS
    /\ radius = FRAME_RADIUS
    /\ rankMax = RANK_FILTER

(* main(csv_file) starts: the file is missing or holds some rows; the     *)
(* database file is new or holds the table of an earlier run.             *)
Init ==
    /\ runner = "main"
    /\ pc = "main"
    /\ csv \in {NoFile} \cup {Table(t) : t \in TablesOf(MainRows, MaxCsvRows)}
    /\ db \in [yellow_taxi : {NoTable} \cup {Table(t) : t \in TablesOf(MainRows, MaxCsvRows)},
               taxi_routes : {FALSE}]
    /\ conOpen = FALSE
    /\ ProgramParams
    /\ ceiling = 0
    /\ Fresh

Next ==
    \/ Main
    \/ Connect
    \/ Configure
    \/ LoadCsvToDuckdb
    \/ Stats
    \/ Prompt
    \/ AnalyzeTripsByHour
    \/ AnalyzePopularRoutes
    \/ AnalyzePaymentMethods
    \/ AnalyzeBusyDaysAndTimes
    \/ SaveReport
    \/ Close

Spec == Init /\ [][Next]_vars

(* run_analytics(con) starts on an open connection whose database holds   *)
(* yellow_taxi.  run_analytics passes limit = 10; smaller limits, which a *)
(* caller of analyze_popular_routes(con, limit) may pass, are drawn too,  *)
(* so that LIMIT cuts the result at the model's table sizes.              *)
InitAnalytics ==
    /\ runner = "run_analytics"
    /\ pc = "hourly"
    /\ csv = NoFile
    /\ db \in [yellow_taxi : {Table(t) : t \in TablesOf(AggRows, MaxRows)},
               taxi_routes : {FALSE}]
    /\ conOpen = TRUE
    /\ limit \in (1..MaxLimit) \cup {DEFAULT_LIMIT}
    /\ ntile = NTILE_BUCKETS
    /\ radius = FRAME_RADIUS
    /\ rankMax = RANK_FILTER
    /\ ceiling = 0
    /\ Fresh

NextAnalytics ==
    \/ AnalyzeTripsByHour
    \/ AnalyzePopularRoutes
    \/ AnalyzePaymentMethods
    \/ AnalyzeBusyDaysAndTimes
    \/ TestLargeMemoryProcessing
    \/ SaveReport

SpecAnalytics == InitAnalytics /\ [][NextAnalytics]_vars

(* The window query on a table, with the program's bucket count, frame    *)
(* radius and rank bound, or with one of them small enough to matter at   *)
(* the model's table sizes.                                               *)
WindowParams ==
    {<<b, FRAME_RADIUS, RANK_FILTER>> : b \in (1..MaxTiles) \cup {NTILE_BUCKETS}}
    \cup {<<NTILE_BUCKETS, r, RANK_FILTER>> : r \in 1..MaxRadius}
    \cup {<<NTILE_BUCKETS, FRAME_RADIUS, k>> : k \in 1..MaxRank}

InitWindow ==
    /\ runner = "test_large_memory_processing"
    /\ pc = "window"
    /\ csv = NoFile
    /\ db \in [yellow_taxi : {Table(t) : t \in TablesOf(WinRows, MaxWinRows)},
               taxi_routes : {FALSE}]
    /\ conOpen = TRUE
    /\ limit = DEFAULT_LIMIT
    /\ \E p \in WindowParams : ntile = p[1] /\ radius = p[2] /\ rankMax = p[3]
    /\ ceiling = 0
    /\ Fresh

NextWindow == WindowQuery

SpecWindow == InitWindow /\ [][NextWindow]_vars

---------------------------------------------------------------------------
(* The grouped aggregation under a memory ceiling.  The program only sets  *)
(* memory_limit and temp_directory (lines 522-525); the spilling is the    *)
(* engine's.  It is modelled from the specification's sections 4.4 and     *)
(* 4.6, for the query by payment type (count and sum of tips per key):     *)
(* the accumulator map grows by one accumulator per new key; when the      *)
(* ceiling denies the reservation the map is sealed into a spill segment,  *)
(* the resident accumulators are reset and the reservation is retried;     *)
(* at the end of the scan all segments and the resident map are merged by  *)
(* key.  Memory is counted in accumulators.                                *)

NoAccumulators == <<>>

(* reserve(1): granted while the resident accumulators are below the      *)
(* ceiling. *)
Reserve(acc) == Cardinality(DOMAIN acc) < ceiling

(* update(value) on the accumulator of key k, created at zero if new. *)
Update(acc, k, v) ==
    LET old == IF k \in DOMAIN acc THEN acc[k] ELSE [count |-> 0, sum |-> 0]
    IN  [x \in DOMAIN acc \cup {k} |->
            IF x = k THEN [count |-> old.count + 1, sum |-> old.sum + v] ELSE acc[x]]

(* Merge with the last segment's accumulator kept for a key, not added. *)
MergeKey_LastWins(maps, k) ==
    LET holders == {i \in 1..Len(maps) : k \in DOMAIN maps[i]}
        last == CHOOSE i \in holders : \A j \in holders : j <= i
    IN  maps[last][k]

(* The merge of one key over a sequence of maps: counts and sums added. *)
RECURSIVE MergeKey(_, _)
MergeKey(maps, k) ==
    IF maps = <<>> THEN [count |-> 0, sum |-> 0]
    ELSE LET rest == MergeKey(Tail(maps), k)
             here == IF k \in DOMAIN Head(maps) THEN Head(maps)[k]
                     ELSE [count |-> 0, sum |-> 0]
         IN  [count |-> here.count + rest.count, sum |-> here.sum + rest.sum]

(* finalize(): one row per key of any segment or of the resident map. *)
MergeAll(maps) ==
    LET keys == UNION {DOMAIN maps[i] : i \in 1..Len(maps)}
    IN  {[payment_type |-> k,
          trip_count |-> MergeKey(maps, k).count,
          total_tips |-> Num(MergeKey(maps, k).sum)] : k \in keys}

(* One row of the scan. *)
ScanRow ==
    /\ pc = "scan"
    /\ scanned < Len(yellow_taxi.rows)
    /\ LET r == yellow_taxi.rows[scanned + 1]
           k == r.payment_type
       IN  IF k \in DOMAIN accumulators \/ Reserve(accumulators)
           THEN /\ accumulators' = Update(accumulators, k, r.tip_amount)
                /\ UNCHANGED segments
           ELSE /\ segments' = Append(segments, accumulators)
                /\ accumulators' = Update(NoAccumulators, k, r.tip_amount)
    /\ scanned' = scanned + 1
    /\ UNCHANGED <<ceiling, merged, runner, pc, csv, dropped, db, conOpen, loaded, params,
                   results, trip_ranks, called, failed, report, outcome>>

(* The end of the scan. *)
Finalize ==
    /\ pc = "scan"
    /\ scanned = Len(yellow_taxi.rows)
    /\ merged' = MergeAll(Append(segments, accumulators))
    /\ pc' = "done"
    /\ outcome' = "returned"
    /\ UNCHANGED <<ceiling, scanned, accumulators, segments, runner, csv, dropped, db,
                   conOpen, loaded, params, results, trip_ranks, called, failed,
                   report>>

InitSpill ==
    /\ runner = "aggregate"
    /\ pc = "scan"
    /\ csv = NoFile
    /\ db \in [yellow_taxi : {Table(t) : t \in TablesOf(AggRows, MaxRows)},
               taxi_routes : {FALSE}]
    /\ conOpen = TRUE
    /\ ProgramParams
    /\ ceiling \in 1..MaxCeiling
    /\ Fresh

NextSpill == ScanRow \/ Finalize

SpecSpill == InitSpill /\ [][NextSpill]_vars

---------------------------------------------------------------------------
(* Properties. *)

(* The analyses a runner's batch calls. *)
Batch(r) ==
    IF r = "main"
    THEN {"hourly", "routes", "payment", "days"}
    ELSE {"hourly", "routes", "payment", "days", "large"}

BatchOver == called # {} /\ pc = "done"

(* C1 (as claimed): per-query failure isolation.  When a batch in which   *)
(* some analysis failed is over, every analysis of the batch has been     *)
(* executed: no failing analysis aborts the others.                       *)
C1_FailureIsolation ==
    (BatchOver /\ failed # {}) => called = Batch(runner)

RECURSIVE SumCounts(_)
SumCounts(s) == IF s = <<>> THEN 0 ELSE Head(s).trip_count + SumCounts(Tail(s))

RECURSIVE SumNested(_)
SumNested(s) == IF s = <<>> THEN 0 ELSE SumCounts(Head(s).hours) + SumNested(Tail(s))

Count(t, P(_)) == Cardinality({i \in 1..Len(t) : P(t[i])})

(* C2 (as claimed): aggregation completeness.  For every grouped          *)
(* aggregation the program issues (by hour, by route, by payment type, by *)
(* day name, by day name and hour) the per-group trip counts sum to the   *)
(* row count of the table.                                                *)
C2_EveryQueryComplete ==
    LET n == Len(yellow_taxi.rows)
    IN  /\ hourly_stats.st = "set" => SumCounts(hourly_stats.val) = n
        /\ popular_routes.st = "set" => SumCounts(popular_routes.val) = n
        /\ payment_stats.st = "set" => SumCounts(payment_stats.val) = n
        /\ day_stats.st = "set" => SumCounts(day_stats.val) = n
        /\ hourly_day_stats.st = "set" => SumNested(hourly_day_stats.val) = n

(* C2 (amended): the per-group trip counts of the queries by hour, by     *)
(* payment type and by day name and hour sum to the row count of the      *)
(* table.  Those of the query by day name sum to the number of rows with  *)
(* dropoff after pickup, a distance above 0 and more than 60 seconds.     *)
(* Those of the query by route sum to at most the number of rows whose    *)
(* four coordinates are all nonzero, and to exactly that number when the  *)
(* result has fewer than limit rows.                                      *)
C2_AggregationCompleteness ==
    LET t == yellow_taxi.rows
        timed == Count(t, LAMBDA r : /\ r.tpep_dropoff_datetime - r.tpep_pickup_datetime > 60
                                     /\ r.trip_distance > 0)
        located == Count(t, LAMBDA r : /\ r.pickup_longitude # 0 /\ r.pickup_latitude # 0
                                       /\ r.dropoff_longitude # 0 /\ r.dropoff_latitude # 0)
    IN  /\ hourly_stats.st = "set" => SumCounts(hourly_stats.val) = Len(t)
        /\ payment_stats.st = "set" => SumCounts(payment_stats.val) = Len(t)
        /\ hourly_day_stats.st = "set" => SumNested(hourly_day_stats.val) = Len(t)
        /\ day_stats.st = "set" => SumCounts(day_stats.val) = timed
        /\ popular_routes.st = "set" =>
                /\ SumCounts(popular_routes.val) <= located
                /\ Len(popular_routes.val) < limit => SumCounts(popular_routes.val) = located

(* C2 witness: all five queries have answered on a table of three rows    *)
(* with two hours, one row without coordinates and one of 0 seconds.      *)
C2_Witness ==
    /\ pc = "large"
    /\ Len(yellow_taxi.rows) = 3
    /\ Len(hourly_stats.val) = 2
    /\ SumCounts(popular_routes.val) = 2
    /\ Len(popular_routes.val) < limit
    /\ SumCounts(day_stats.val) = 1
    /\ SumNested(hourly_day_stats.val) = 3

(* The sum of tip_amount / fare_amount over the rows with a nonzero fare. *)
RECURSIVE TipShareSum(_)
TipShareSum(s) ==
    IF s = <<>> THEN Num(0)
    ELSE IF Head(s).fare_amount = 0 THEN TipShareSum(Tail(s))
         ELSE RatAdd(Rat(Head(s).tip_amount, Head(s).fare_amount), TipShareSum(Tail(s)))

(* The sum of distance per hour over the rows. *)
RECURSIVE SpeedSum(_)
SpeedSum(s) ==
    IF s = <<>> THEN Num(0)
    ELSE RatAdd(Rat(Head(s).trip_distance * 3600,
                    Head(s).tpep_dropoff_datetime - Head(s).tpep_pickup_datetime),
                SpeedSum(Tail(s)))

(* An entry of a tip percentage report over the rows g of its group: all  *)
(* of g is counted, and the percentage is 100 times the tip shares of the *)
(* rows with a nonzero fare, divided by the number of those rows.         *)
TipGuarded(e, g) ==
    LET paid == SelectSeq(g, LAMBDA r : r.fare_amount # 0)
        s == TipShareSum(g)
    IN  /\ e.trip_count = Len(g)
        /\ paid # <<>> => e.tip_percentage = Rat(100 * s.n, s.d * Len(paid))

TipsGuarded ==
    LET t == yellow_taxi.rows
    IN  /\ hourly_stats.st = "set" =>
            \A k \in 1..Len(hourly_stats.val) :
                LET e == hourly_stats.val[k]
                IN  TipGuarded(e, SelectSeq(t, LAMBDA r : HourOfDay(r) = e.hour))
        /\ payment_stats.st = "set" =>
            \A k \in 1..Len(payment_stats.val) :
                LET e == payment_stats.val[k]
                IN  TipGuarded(e, SelectSeq(t, LAMBDA r : r.payment_type = e.payment_id))

OnDay(t, d) == SelectSeq(t, LAMBDA r : PickupDayName(r) = d)

Timed(g) ==
    SelectSeq(g, LAMBDA r : /\ r.tpep_dropoff_datetime - r.tpep_pickup_datetime > 60
                            /\ r.trip_distance > 0)

ZeroSeconds(g) ==
    SelectSeq(g, LAMBDA r : r.tpep_dropoff_datetime = r.tpep_pickup_datetime)

(* C3 (as claimed): ratio guard.  In the tip percentages by hour and by   *)
(* payment type and in the speed by day, a row with a zero denominator is *)
(* left out of the ratio average and is still counted in its group's      *)
(* count: a day's count holds its rows of 0 seconds besides the rows that *)
(* enter the speed average.                                               *)
C3_ZeroDenominatorCounted ==
    /\ TipsGuarded
    /\ day_stats.st = "set" =>
        \A i \in 1..Len(yellow_taxi.rows) :
            LET g == OnDay(yellow_taxi.rows, PickupDayName(yellow_taxi.rows[i]))
            IN  ZeroSeconds(g) # <<>> =>
                    \E k \in 1..Len(day_stats.val) :
                        /\ day_stats.val[k].day = PickupDayName(yellow_taxi.rows[i])
                        /\ day_stats.val[k].trip_count >= Len(Timed(g)) + Len(ZeroSeconds(g))

(* C3 (amended): in the tip percentages by hour and by payment type a row *)
(* with a zero fare raises no error, is left out of the sum and of the    *)
(* divisor of the percentage, and is counted in its group's count.  In    *)
(* the speed by day a row of 0 seconds raises no error and is left out of *)
(* the speed average, and it is left out of the day's count too: the      *)
(* day's entry counts and averages only the rows of more than 60 seconds  *)
(* and a distance above 0, and a day without such a row has no entry.     *)
C3_RatioGuard ==
    /\ TipsGuarded
    /\ day_stats.st = "set" =>
        /\ \A k \in 1..Len(day_stats.val) :
              LET e == day_stats.val[k]
                  g == Timed(OnDay(yellow_taxi.rows, e.day))
                  s == SpeedSum(g)
              IN  /\ g # <<>>
                  /\ e.trip_count = Len(g)
                  /\ e.avg_speed_mph = Rat(s.n, s.d * Len(g))
        /\ \A i \in 1..Len(yellow_taxi.rows) :
              Timed(<<yellow_taxi.rows[i]>>) # <<>> =>
                  \E k \in 1..Len(day_stats.val) :
                      day_stats.val[k].day = PickupDayName(yellow_taxi.rows[i])

(* C3 witness: the reports are made on a table with a tipped trip of fare *)
(* 0 in a group that also holds a trip with a fare, and a trip of 0       *)
(* seconds on a day that has no entry.                                    *)
C3_Witness ==
    /\ pc = "large"
    /\ \E i, j \in 1..Len(yellow_taxi.rows) :
          /\ yellow_taxi.rows[i].fare_amount = 0
          /\ yellow_taxi.rows[i].tip_amount > 0
          /\ yellow_taxi.rows[j].fare_amount > 0
          /\ HourOfDay(yellow_taxi.rows[i]) = HourOfDay(yellow_taxi.rows[j])
          /\ yellow_taxi.rows[i].payment_type = yellow_taxi.rows[j].payment_type
    /\ \E i \in 1..Len(yellow_taxi.rows) :
          /\ ZeroSeconds(<<yellow_taxi.rows[i]>>) # <<>>
          /\ \A k \in 1..Len(day_stats.val) :
                day_stats.val[k].day # PickupDayName(yellow_taxi.rows[i])
    /\ day_stats.val # <<>>

(* What an analysis of main's batch returns on success from an empty      *)
(* table.                                                                 *)
EmptyAnswers(a) ==
    CASE a = "routes" -> {Set(RoutesData(res)) : res \in RoutesQuery(<<>>, 2, limit)}
      [] a = "payment" -> {Set(PaymentData(res)) : res \in PaymentQuery(<<>>)}
      [] a = "days" -> {Set(DayData(DayQuery(<<>>)))}
      [] OTHER -> {}

(* C4 (as claimed): failure is distinguishable from absence of data.  The *)
(* value recorded for an analysis that failed is never a value the        *)
(* analysis returns on success from an empty table, and a load that       *)
(* failed is not reported as a load of no rows.                           *)
C4_FailureDistinguishable ==
    /\ ("routes" \in failed /\ popular_routes.st = "set") =>
            popular_routes \notin EmptyAnswers("routes")
    /\ ("payment" \in failed /\ payment_stats.st = "set") =>
            payment_stats \notin EmptyAnswers("payment")
    /\ ("days" \in failed /\ day_stats.st = "set") =>
            day_stats \notin EmptyAnswers("days")
    /\ (loaded.called /\ ~loaded.success) =>
            loaded # [called |-> TRUE, success |-> TRUE, row_count |-> 0]

(* C5 (as claimed): an ingestion failure aborts the run.  After           *)
(* load_csv_to_duckdb has returned success = False, no analysis is run    *)
(* and the user is not asked for one.                                     *)
C5_FailedLoadAborts ==
    (loaded.called /\ ~loaded.success) =>
        (called = {} /\ pc \in {"stats", "close", "done"})

(* C6: spill correctness.  The finalized rows of the aggregation by       *)
(* payment type are those of the query on the whole table (count and sum  *)
(* of tips per payment type), whatever the memory ceiling and however     *)
(* often the accumulators were spilled.                                   *)
C6_SpillCorrectness ==
    (runner = "aggregate" /\ pc = "done") =>
        merged = {[payment_type |-> g.payment_type,
                   trip_count |-> g.trip_count,
                   total_tips |-> g.total_tips] : g \in Range(PaymentGroups(yellow_taxi.rows))}

(* C6 witness: an aggregation has ended after a spill, with a key held by *)
(* the spilled segment and by the resident accumulators.                  *)
C6_Witness ==
    /\ runner = "aggregate"
    /\ pc = "done"
    /\ segments # <<>>
    /\ DOMAIN segments[1] \cap DOMAIN accumulators # {}

WindowDone == runner = "test_large_memory_processing" /\ pc = "done"

(* The rows of trip_ranks in the partition (pickup day) of row i. *)
Partition(i) ==
    {j \in 1..Len(trip_ranks) :
        ExtractDay(trip_ranks[j].tpep_pickup_datetime)
            = ExtractDay(trip_ranks[i].tpep_pickup_datetime)}

(* The rows of a partition that the filter day_fare_rank <= rankMax keeps. *)
Kept(i) == {j \in Partition(i) : trip_ranks[j].day_fare_rank <= rankMax}

(* C7 (as claimed): partitioned rank.  Within each partition the ranks    *)
(* are exactly 1..k, each used once, rows of equal fare ranked in scan    *)
(* order; so the filter on the rank keeps at most rankMax rows of a       *)
(* partition.                                                             *)
C7_RanksUsedOnce ==
    WindowDone =>
        \A i \in 1..Len(trip_ranks) :
            /\ {trip_ranks[j].day_fare_rank : j \in Partition(i)}
                    = 1..Cardinality(Partition(i))
            /\ \A j \in Partition(i) :
                    (i < j /\ trip_ranks[i].fare_amount = trip_ranks[j].fare_amount)
                        => trip_ranks[i].day_fare_rank < trip_ranks[j].day_fare_rank
            /\ Cardinality(Kept(i)) <= rankMax

(* C7 (amended): within each partition a higher fare has a lower rank,    *)
(* rows of equal fare share one rank (scan order does not separate them), *)
(* and a row's rank is one more than the number of rows of the partition  *)
(* ranked below it, so ranks lie in 1..k and are 1..k, each used once,    *)
(* exactly when the fares of the partition differ.  The filter on the     *)
(* rank keeps the rows with fewer than rankMax rows of higher fare in     *)
(* their partition: at most rankMax rows when the fares differ, more when *)
(* rows tie with a kept row.                                              *)
C7_PartitionedRank ==
    WindowDone =>
        \A i \in 1..Len(trip_ranks) :
            LET higher == {j \in Partition(i) :
                              trip_ranks[j].fare_amount > trip_ranks[i].fare_amount}
            IN  /\ trip_ranks[i].day_fare_rank \in 1..Cardinality(Partition(i))
                /\ \A j \in Partition(i) :
                      /\ trip_ranks[j].fare_amount > trip_ranks[i].fare_amount
                            => trip_ranks[j].day_fare_rank < trip_ranks[i].day_fare_rank
                      /\ trip_ranks[j].fare_amount = trip_ranks[i].fare_amount
                            => trip_ranks[j].day_fare_rank = trip_ranks[i].day_fare_rank
                /\ trip_ranks[i].day_fare_rank
                      = 1 + Cardinality({j \in Partition(i) :
                              trip_ranks[j].day_fare_rank < trip_ranks[i].day_fare_rank})
                /\ (i \in Kept(i)) <=> (Cardinality(higher) < rankMax)

(* C7 witness: a partition of three rows, two of them with the highest    *)
(* fare and rank 1 and the third with rank 3, of which a filter           *)
(* day_fare_rank <= 1 keeps two.                                          *)
C7_Witness ==
    /\ WindowDone
    /\ rankMax = 1
    /\ \E i \in 1..Len(trip_ranks) :
          /\ Cardinality(Partition(i)) = 3
          /\ Cardinality(Kept(i)) = 2
          /\ trip_ranks[i].day_fare_rank = 3

(* The rows of trip_ranks whose place in the pickup ordering is in lo..hi. *)
Framed(lo, hi) == {j \in 1..Len(trip_ranks) : trip_ranks[j].pickup_pos \in lo..hi}

RECURSIVE FareSum(_)
FareSum(S) ==
    IF S = {} THEN 0
    ELSE LET j == CHOOSE x \in S : TRUE
         IN  trip_ranks[j].fare_amount + FareSum(S \ {j})

(* C9: centered moving average with a clipped window.  The rows are in    *)
(* the order of their pickup timestamps, and the moving average of the    *)
(* row at place p of N is the sum of the fares of the rows at places      *)
(* max(1, p - r)..min(N, p + r) divided by the number of those rows.      *)
C9_ClippedMovingAverage ==
    WindowDone =>
        LET n == Len(trip_ranks)
        IN  /\ {trip_ranks[i].pickup_pos : i \in 1..n} = 1..n
            /\ \A i, j \in 1..n :
                  trip_ranks[i].tpep_pickup_datetime < trip_ranks[j].tpep_pickup_datetime
                      => trip_ranks[i].pickup_pos < trip_ranks[j].pickup_pos
            /\ \A i \in 1..n :
                  LET p == trip_ranks[i].pickup_pos
                      lo == IF p - radius < 1 THEN 1 ELSE p - radius
                      hi == IF p + radius > n THEN n ELSE p + radius
                      avg == trip_ranks[i].moving_avg_fare
                  IN  /\ avg.d > 0
                      /\ avg.n * (hi - lo + 1) = FareSum(Framed(lo, hi)) * avg.d

(* C9 witness: three rows and radius 1; the first row averages two rows,  *)
(* the second all three, and the averages differ from the sum over three. *)
C9_Witness ==
    /\ WindowDone
    /\ radius = 1
    /\ Len(trip_ranks) = 3
    /\ \E i, j \in 1..3 :
          /\ trip_ranks[i].pickup_pos = 1
          /\ trip_ranks[j].pickup_pos = 2
          /\ trip_ranks[i].moving_avg_fare = Num(15)
          /\ trip_ranks[j].moving_avg_fare = Rat(50, 3)

(* The number of rows of trip_ranks in bucket b. *)
BucketSize(b) == Cardinality({i \in 1..Len(trip_ranks) : trip_ranks[i].distance_percentile = b})

(* C10: percentile tile monotonicity.  A row of smaller trip_distance has *)
(* no larger tile index than a row of larger trip_distance, the index     *)
(* follows the place in the distance ordering, every index is in 1..T,    *)
(* and the sizes of the T buckets differ by at most one.                  *)
C10_TileMonotonic ==
    WindowDone =>
        /\ \A i, j \in 1..Len(trip_ranks) :
              /\ trip_ranks[i].trip_distance < trip_ranks[j].trip_distance
                    => trip_ranks[i].distance_percentile <= trip_ranks[j].distance_percentile
              /\ trip_ranks[i].distance_pos < trip_ranks[j].distance_pos
                    => trip_ranks[i].distance_percentile <= trip_ranks[j].distance_percentile
        /\ \A i \in 1..Len(trip_ranks) : trip_ranks[i].distance_percentile \in 1..ntile
        /\ \A a, b \in 1..ntile : BucketSize(a) - BucketSize(b) <= 1

(* C10 witness: three rows in two buckets, of two rows and of one row,    *)
(* with two rows of equal distance in different buckets.                  *)
C10_Witness ==
    /\ WindowDone
    /\ ntile = 2
    /\ BucketSize(1) = 2
    /\ BucketSize(2) = 1
    /\ \E i, j \in 1..Len(trip_ranks) :
          /\ trip_ranks[i].trip_distance = trip_ranks[j].trip_distance
          /\ trip_ranks[i].distance_percentile # trip_ranks[j].distance_percentile

(* The groups in descending order of trip_count, groups of equal count in *)
(* their first-seen order: a stable sort.                                 *)
StableByTripCountDesc(groups) ==
    LET n == Len(groups)
        ord == CHOOSE o \in Orders(1..n, [i \in 1..n |-> (i - (groups[i].trip_count * (n + 1)))]) : TRUE
    IN  [k \in 1..n |-> groups[ord[k]]]

(* C8 (as claimed): top-N ordering.  The routes result is the first limit *)
(* groups, and the payment result all groups, in descending order of      *)
(* trip_count with groups of equal count in first-seen order of the group *)
(* key: one result sequence per table.                                    *)
C8_FirstSeenTieBreak ==
    LET t == yellow_taxi.rows
    IN  /\ (popular_routes.st = "set" /\ "routes" \notin failed) =>
            popular_routes.val \in
                {RoutesData(Limit(StableByTripCountDesc(RouteGroups(t, places)), limit)) :
                    places \in {1, 2}}
        /\ (payment_stats.st = "set" /\ "payment" \notin failed) =>
            payment_stats.val = PaymentData(StableByTripCountDesc(PaymentGroups(t)))

---------------------------------------------------------------------------
(* The hours of pickup present in table t, and the sum of the fares of    *)
(* the rows of t picked up in hour h.                                     *)
HoursPresent(t) == {(t[i].tpep_pickup_datetime \div 3600) % 24 : i \in 1..Len(t)}

RowsInHour(t, h) == {i \in 1..Len(t) : (t[i].tpep_pickup_datetime \div 3600) % 24 = h}

RECURSIVE HourFareSum(_, _)
HourFareSum(t, h) ==
    IF t = <<>> THEN 0
    ELSE (IF (Head(t).tpep_pickup_datetime \div 3600) % 24 = h THEN Head(t).fare_amount ELSE 0)
         + HourFareSum(Tail(t), h)

(* C11: grouped aggregation result.  The answer of analyze_trips_by_hour  *)
(* holds exactly one entry per distinct hour present in the table and no  *)
(* entry for an hour without trips; an entry's trip_count is the number   *)
(* of rows of that hour and its avg_fare is the sum of their fares        *)
(* divided by that count.                                                 *)
C11_GroupByHourResult ==
    hourly_stats.st = "set" =>
        LET t == yellow_taxi.rows
            a == hourly_stats.val
        IN  /\ Len(a) = Cardinality(HoursPresent(t))
            /\ {a[k].hour : k \in 1..Len(a)} = HoursPresent(t)
            /\ \A k \in 1..Len(a) :
                    /\ a[k].trip_count = Cardinality(RowsInHour(t, a[k].hour))
                    /\ a[k].trip_count > 0
                    /\ a[k].avg_fare = Rat(HourFareSum(t, a[k].hour), a[k].trip_count)

(* C11 witness: the table holds hours 0, 0, 13 with fares 10, 20, 30 and  *)
(* the answer is exactly (0, 2, 15) and (13, 1, 30).                      *)
C11_Witness ==
    /\ hourly_stats.st = "set"
    /\ Len(yellow_taxi.rows) = 3
    /\ [i \in 1..3 |-> <<(yellow_taxi.rows[i].tpep_pickup_datetime \div 3600) % 24,
                          yellow_taxi.rows[i].fare_amount>>]
            = <<(<<0, 10>>), (<<0, 20>>), (<<13, 30>>)>>
    /\ Len(hourly_stats.val) = 2
    /\ hourly_stats.val[1].hour = 0
    /\ hourly_stats.val[1].trip_count = 2
    /\ hourly_stats.val[1].avg_fare = Num(15)
    /\ hourly_stats.val[2].hour = 13
    /\ hourly_stats.val[2].trip_count = 1
    /\ hourly_stats.val[2].avg_fare = Num(30)

---------------------------------------------------------------------------
(* C12: table replacement and row count.  Whatever the persisted database *)
(* held from earlier ingestion runs, after a successful                   *)
(* load_csv_to_duckdb the table yellow_taxi exists and holds exactly the  *)
(* rows of the file just ingested, none of the table it replaced, and the *)
(* row_count returned is the number of rows of the table.                 *)
C12_TableReplaced ==
    (loaded.called /\ loaded.success) =>
        /\ yellow_taxi.exists
        /\ yellow_taxi.rows = csv.rows
        /\ loaded.row_count = Len(yellow_taxi.rows)

(* C12 witness: a successful load has replaced a table of an earlier run  *)
(* that held a row the file does not hold.                                *)
C12_Witness ==
    /\ loaded.called /\ loaded.success
    /\ dropped.exists
    /\ \E i \in 1..Len(dropped.rows) :
            \A j \in 1..Len(csv.rows) : dropped.rows[i] # csv.rows[j]
    /\ csv.rows # <<>>
    /\ yellow_taxi.rows = csv.rows
    /\ loaded.row_count = Len(csv.rows)

---------------------------------------------------------------------------
(* C13 (as claimed): connection cleanup.  On every path through main on   *)
(* which the connection was opened (a failure of the SET statements, a    *)
(* failed load, a failed analysis, the user declining the analytics) the  *)
(* connection is closed when main returns or raises.                      *)
C13_ConnectionClosed ==
    (runner = "main" /\ pc = "done") => ~conOpen

=============================================================================
